---- MODULE Spec2Model ----
(***************************************************************************)
(* Model of the shop back-office server: the request handlers of the two   *)
(* server revisions kept in the repository (src/models/Shop.js from line   *)
(* 38 on, and src/server.js) over the document store reached through the   *)
(* mongoose models Customers.js, Billing.js and Bill.js.                   *)
(*                                                                         *)
(* The store is an external database that outlives the server process.     *)
(* Each handler is one action: it reads the request, consults the store,   *)
(* writes at most one document and sends one response, which `last` keeps. *)
(* Every handler is also an operator from (store, request) to (response,   *)
(* store), so that a property of a handler can be stated for every request *)
(* at every reachable store.                                               *)
(***************************************************************************)
EXTENDS Integers, Sequences, FiniteSets, TLC

\* customers, items, bills: the three collections of the store.
\* last:   the latest request and its response.
\* now:    the clock that Date.now() and new Date() read.
\* orders: the work orders ("Aari" documents), by order id.
\* reqs:   the requests in flight, for the specifications that interleave the
\*         store round trips of concurrent requests.
VARIABLES customers, items, bills, last, now, orders, reqs

vars == <<customers, items, bills, last, now, orders, reqs>>

(***************************************************************************)
(* Bounds of the model.                                                    *)
(***************************************************************************)
\* Amounts of money range over 0..MaxAmount (requests also try -1 and
\* MaxAmount + 1, so that a negative amount and an overpayment both happen).
MaxAmount == 2

\* The clock reads 0..MaxTime.
MaxTime == 3

\* The ids the store gives to bills: a bill's id is its position in `bills`.
BillIds == {1, 2}

(***************************************************************************)
(* Strings.  A regular expression is modelled by the set of the sample     *)
(* strings that match it, a length rule by the table of their lengths.     *)
(***************************************************************************)
CustA == "CUST-ABC-01/01/2024-0001"
CustB == "CUST-XYZ-02/02/2024-0002"
CustOld == "CUST-abcdef123456"
CustomerIdInputs == {CustA, CustB, CustOld}

PhoneA == "+91-9000000001"
PhoneB == "+91-9000000002"
PhonePlain == "+919000000003"
PhoneInputs == {PhoneA, PhoneB, PhonePlain}

ItemA == "ITEM-ABC1234"
ItemB == "ITEM-XYZ5678"
ItemBad == "ITEM-abc"
ItemIdInputs == {ItemA, ItemB, ItemBad}

StrLen(s) ==
  CASE s = "Shirt" -> 5
    [] s = "S" -> 1
    [] s = "Anu" -> 3
    [] s = "Banu" -> 4
    [] OTHER -> 0

\* /^CUST-[A-Z]{3}-\d{2}\/\d{2}\/\d{4}-\d{4}$/
JoiCustomerIdPattern(s) == s \in {CustA, CustB}

\* /^\+91-[6-9]\d{9}$/
JoiPhonePattern(s) == s \in {PhoneA, PhoneB}

\* /^ITEM-[A-Z0-9]{7}$/
JoiItemIdPattern(s) == s \in {ItemA, ItemB}

\* Customers.js: match /^CUST-[a-zA-Z0-9]{12}$/
ModelCustomerIdMatch(s) == s \in {CustOld}

\* Customers.js: match /^\+91[6-9]\d{9}$/
ModelPhoneMatch(s) == s \in {PhonePlain}

\* Joi.string().min(2).max(100)
JoiName(s) == StrLen(s) >= 2 /\ StrLen(s) <= 100

Range(s) == {s[i] : i \in 1..Len(s)}

(***************************************************************************)
(* Requests.                                                               *)
(***************************************************************************)
\* An optional body field is a sequence of length 0 (absent) or 1.
Absent == <<>>
Present(v) == <<v>>

Line(i, q) == [itemId |-> i, quantity |-> q]

\* The item list that passes the request-level rules: two lines.
ListAB == <<Line(ItemA, 2), Line(ItemB, 1)>>

\* Item lists that do not: empty, a zero quantity, a malformed itemId.
InvalidItemLists == { <<>>, <<Line(ItemA, 0)>>, <<Line(ItemBad, 1)>> }

CustomerBodies ==
  [customerId : CustomerIdInputs, name : {"Anu", "S"}, phonenumber : PhoneInputs]

UpdateCustomerBodies == [name : {"Anu", "S"}, phonenumber : PhoneInputs]

ItemBodies == [itemId : ItemIdInputs, name : {"Shirt", "S"}, price : {-1, 10, 20}]

\* The bill requests of Spec: the well-formed ones for either customer, and
\* one request for each way of being malformed.
WellFormedBillBodies ==
  [customerId : {CustA, CustB}, items : {ListAB},
   total : {MaxAmount}, paidAmount : {Absent, Present(1)}]

OneBillBody ==
  [customerId |-> CustA, items |-> ListAB, total |-> MaxAmount, paidAmount |-> Absent]

MalformedBillBodies ==
  {[OneBillBody EXCEPT !.customerId = CustOld],
   [OneBillBody EXCEPT !.total = -1],
   [OneBillBody EXCEPT !.paidAmount = Present(-1)]}
  \cup {[OneBillBody EXCEPT !.items = l] : l \in InvalidItemLists}

BillBodies == WellFormedBillBodies \cup MalformedBillBodies

PaymentBodies ==
  [paidAmount : {Absent, Present(-1), Present(0), Present(MaxAmount)}]

\* The bill requests of SpecPay: one customer, one item list, every amount.
AmountBillBodies ==
  [customerId : {CustA}, items : {ListAB}, total : -1..MaxAmount,
   paidAmount : {Absent} \cup {Present(p) : p \in -1..(MaxAmount + 1)}]

AmountPaymentBodies ==
  [paidAmount : {Absent} \cup {Present(p) : p \in -1..(MaxAmount + 1)}]

\* The bill ids of the requests: the ids the store gives, 0 for a malformed
\* id, and a well-formed id that no bill has.
BillIdInputs == BillIds \cup {0, 99}

(***************************************************************************)
(* The store.                                                              *)
(***************************************************************************)
FindCustomer(cs, customerId) == {c \in cs : c.customerId = customerId}

FindItem(its, itemId) == {i \in its : i.itemId = itemId}

TheItem(its, itemId) == CHOOSE i \in its : i.itemId = itemId

\* What `last` keeps of a request and its response: the route, the status, the
\* error or message and, for POST /bill/saveBill, the body of the request and
\* the item ids that the error names.
NoBody == [customerId |-> "", items |-> <<>>, total |-> 0, paidAmount |-> <<>>]

Response(op, status, message) ==
  [op |-> op, status |-> status, message |-> message, body |-> NoBody,
   invalidItems |-> <<>>]

Init ==
  /\ customers = { [customerId |-> CustA, name |-> "Anu", phonenumber |-> PhoneA,
                    favorite |-> FALSE],
                   [customerId |-> CustB, name |-> "Banu", phonenumber |-> PhoneB,
                    favorite |-> FALSE] }
  /\ items = {}
  /\ bills = <<>>
  /\ last = Response("none", 0, "")
  /\ now = 0
  /\ orders = <<>>
  /\ reqs = <<>>

(***************************************************************************)
(* Customer handlers.  Each returns the response and the customer          *)
(* collection it leaves.                                                   *)
(***************************************************************************)
\* Joi customerSchema (name stands for the length-checked string fields).
JoiCustomerValid(body) ==
  /\ JoiCustomerIdPattern(body.customerId)
  /\ JoiName(body.name)
  /\ JoiPhonePattern(body.phonenumber)

\* The validators of the mongoose Customer schema that save() runs.
ModelCustomerValid(doc) ==
  /\ ModelCustomerIdMatch(doc.customerId)
  /\ StrLen(doc.name) >= 2 /\ StrLen(doc.name) <= 100
  /\ ModelPhoneMatch(doc.phonenumber)

\* The unique indexes on customerId and phonenumber, checked by the store.
CustomerIndexesAllow(cs, doc) ==
  \A c \in cs : c.customerId # doc.customerId /\ c.phonenumber # doc.phonenumber

\* ExistingCustomer querying the phone number, as the check after it does.
ExistingCustomerByPhone(cs, body) == {c \in cs : c.phonenumber = body.phonenumber}

\* Customer.findOne({ customerId })
ExistingCustomer(cs, body) == FindCustomer(cs, body.customerId)

\* await newCustomer.save(): the schema validators, then the insert, which the
\* unique indexes refuse with a duplicate key error; the handler passes every
\* error that is no ValidationError on, and the global handler answers 500.
SaveCustomer(cs, body) ==
  IF ~ModelCustomerValid(body)
    THEN [resp |-> Response("submitCustomers", 400, "ValidationError"), customers |-> cs]
  ELSE IF ~CustomerIndexesAllow(cs, body)
    THEN [resp |-> Response("submitCustomers", 500, "Internal Server Error"),
          customers |-> cs]
  ELSE [resp |-> Response("submitCustomers", 201, ""),
        customers |-> cs \cup {[customerId |-> body.customerId, name |-> body.name,
                                phonenumber |-> body.phonenumber, favorite |-> FALSE]}]

SubmitCustomers(cs, body) ==
  IF ~JoiCustomerValid(body)
    THEN [resp |-> Response("submitCustomers", 400, "validation"), customers |-> cs]
  ELSE IF ExistingCustomer(cs, body) # {}
    THEN [resp |-> Response("submitCustomers", 409, "Customer ID already exists"),
          customers |-> cs]
  ELSE IF {c \in cs : c.phonenumber = body.phonenumber} # {}
    THEN [resp |-> Response("submitCustomers", 409, "Phone number already exists"),
          customers |-> cs]
  ELSE SaveCustomer(cs, body)

DeleteCustomer(cs, customerId) ==
  IF FindCustomer(cs, customerId) = {}
    THEN [resp |-> Response("deleteCustomer", 404, "Customer not found"), customers |-> cs]
    ELSE [resp |-> Response("deleteCustomer", 200, ""),
          customers |-> cs \ FindCustomer(cs, customerId)]

\* customer.favorite of the document findOne returns.  `favorite` is no path of
\* the Customer schema, so the document has no such property: it reads as
\* undefined, which ! takes for false, whatever the stored document holds.
FavoriteRead(c) == FALSE

\* What save() writes of the document c: its modified schema paths.  The
\* assignment to customer.favorite sets a property of the in-memory object and
\* modifies no path, so the stored document stays as it is.
SavedCustomer(c, favorite) == c

ToggleFavorite(cs, customerId) ==
  IF FindCustomer(cs, customerId) = {}
    THEN [resp |-> Response("toggleFavorite", 404, "Customer not found"),
          customers |-> cs, favorite |-> FALSE]
    ELSE LET customer == CHOOSE c \in cs : c.customerId = customerId
             favorite == ~FavoriteRead(customer)
         IN  [resp |-> Response("toggleFavorite", 200,
                         IF favorite THEN "Customer added to favorites"
                                     ELSE "Customer removed from favorites"),
              customers |-> (cs \ {customer}) \cup {SavedCustomer(customer, favorite)},
              favorite |-> favorite]

JoiUpdateCustomerValid(body) ==
  /\ JoiName(body.name)
  /\ JoiPhonePattern(body.phonenumber)

\* The update validators findOneAndUpdate runs (runValidators) before the query.
ModelCustomerUpdateValid(body) ==
  /\ StrLen(body.name) >= 2 /\ StrLen(body.name) <= 100
  /\ ModelPhoneMatch(body.phonenumber)

\* Customer.findOne({ phonenumber, customerId: { $ne: customerId } })
ExistingPhone(cs, customerId, body) ==
  {c \in cs : c.phonenumber = body.phonenumber /\ c.customerId # customerId}

\* await Customer.findOneAndUpdate(...): the update validators, then the
\* store's find and write in one operation, which the unique index on
\* phonenumber refuses with a duplicate key error (answered 500).
FindOneAndUpdateCustomer(cs, customerId, body) ==
  IF ~ModelCustomerUpdateValid(body)
    THEN [resp |-> Response("updateCustomer", 500, "Internal Server Error"),
          customers |-> cs]
  ELSE IF FindCustomer(cs, customerId) = {}
    THEN [resp |-> Response("updateCustomer", 404, "Customer not found"), customers |-> cs]
  ELSE IF ExistingPhone(cs, customerId, body) # {}
    THEN [resp |-> Response("updateCustomer", 500, "Internal Server Error"),
          customers |-> cs]
  ELSE [resp |-> Response("updateCustomer", 200, ""),
        customers |-> (cs \ FindCustomer(cs, customerId))
                      \cup {[c EXCEPT !.name = body.name,
                                      !.phonenumber = body.phonenumber]
                            : c \in FindCustomer(cs, customerId)}]

UpdateCustomer(cs, customerId, body) ==
  IF ~JoiUpdateCustomerValid(body)
    THEN [resp |-> Response("updateCustomer", 400, "validation"), customers |-> cs]
  ELSE IF ExistingPhone(cs, customerId, body) # {}
    THEN [resp |-> Response("updateCustomer", 409, "Phone number already exists"),
          customers |-> cs]
  ELSE FindOneAndUpdateCustomer(cs, customerId, body)

(***************************************************************************)
(* Catalog item ("Billing") handlers.                                      *)
(***************************************************************************)
\* Joi billingSchema.
JoiItemValid(body) ==
  /\ JoiItemIdPattern(body.itemId)
  /\ JoiName(body.name)
  /\ body.price >= 0

\* The validators of the mongoose Billing schema.
ModelItemValid(doc) ==
  /\ StrLen(doc.name) >= 2 /\ StrLen(doc.name) <= 100
  /\ doc.price >= 0

\* Billing.js: createdAt and updatedAt default to Date.now, and pre("save")
\* sets updatedAt to Date.now() again.
NewItem(body, t) ==
  [itemId |-> body.itemId, name |-> body.name, price |-> body.price,
   createdAt |-> t, updatedAt |-> t]

\* findOneAndUpdate({ itemId }, { name, price }): the update names two fields,
\* the schema has no timestamps option, and no save hook runs.
UpdatedItem(item, body, t) == [item EXCEPT !.name = body.name, !.price = body.price]

\* Billing.js: unique: true on itemId, checked by the store.
ItemIndexAllows(its, doc) == \A i \in its : i.itemId # doc.itemId

\* await newItem.save(): the schema validators, then the insert, which the
\* unique index refuses with a duplicate key error (answered 500).
SaveItem(its, body, t) ==
  IF ~ModelItemValid(body)
    THEN [resp |-> Response("submitItems", 400, "ValidationError"), items |-> its]
  ELSE IF ~ItemIndexAllows(its, body)
    THEN [resp |-> Response("submitItems", 500, "Internal Server Error"), items |-> its]
  ELSE [resp |-> Response("submitItems", 201, ""), items |-> its \cup {NewItem(body, t)}]

SubmitItems(its, body, t) ==
  IF ~JoiItemValid(body)
    THEN [resp |-> Response("submitItems", 400, "validation"), items |-> its]
  ELSE IF FindItem(its, body.itemId) # {}
    THEN [resp |-> Response("submitItems", 409, "Item ID already exists"), items |-> its]
  ELSE SaveItem(its, body, t)

UpdateItem(its, body, t) ==
  IF ~JoiItemValid(body)
    THEN [resp |-> Response("updateItem", 400, "validation"), items |-> its]
  ELSE IF ~ModelItemValid(body)
    THEN [resp |-> Response("updateItem", 400, "ValidationError"), items |-> its]
  ELSE IF FindItem(its, body.itemId) = {}
    THEN [resp |-> Response("updateItem", 404, "Item not found"), items |-> its]
  ELSE [resp |-> Response("updateItem", 200, ""),
        items |-> (its \ FindItem(its, body.itemId))
                  \cup {UpdatedItem(i, body, t) : i \in FindItem(its, body.itemId)}]

DeleteItem(its, itemId) ==
  IF FindItem(its, itemId) = {}
    THEN [resp |-> Response("deleteItem", 404, "Item not found"), items |-> its]
    ELSE [resp |-> Response("deleteItem", 200, ""), items |-> its \ FindItem(its, itemId)]

(***************************************************************************)
(* Bill handlers.                                                          *)
(***************************************************************************)
\* Joi billSchema of Shop.js (balance and paymentStatus of the body are
\* accepted and never read).
JoiBillValid(body) ==
  /\ JoiCustomerIdPattern(body.customerId)
  /\ Len(body.items) >= 1
  /\ \A k \in 1..Len(body.items) :
       JoiItemIdPattern(body.items[k].itemId) /\ body.items[k].quantity >= 1
  /\ body.total >= 0
  /\ body.paidAmount # Absent => body.paidAmount[1] >= 0

\* Joi billSchema of server.js: no paidAmount key, and unknown keys are refused.
JoiBillValidServer(body) ==
  /\ JoiCustomerIdPattern(body.customerId)
  /\ Len(body.items) >= 1
  /\ \A k \in 1..Len(body.items) :
       JoiItemIdPattern(body.items[k].itemId) /\ body.items[k].quantity >= 1
  /\ body.total >= 0
  /\ body.paidAmount = Absent

\* ModelBillValid without the min: 0 of paidAmount.
ModelBillValidAnyPaid(doc) ==
  /\ \A k \in 1..Len(doc.items) : doc.items[k].quantity >= 1
  /\ doc.total >= 0
  /\ doc.paymentStatus \in {"Pending", "Partially Paid", "Paid"}

\* The validators of the mongoose Bill schema.
ModelBillValid(doc) ==
  /\ \A k \in 1..Len(doc.items) : doc.items[k].quantity >= 1
  /\ doc.total >= 0
  /\ doc.paidAmount >= 0
  /\ doc.paymentStatus \in {"Pending", "Partially Paid", "Paid"}

\* const { ..., paidAmount = 0 } = req.body
PaidAmountOf(body) == IF body.paidAmount = Absent THEN 0 ELSE body.paidAmount[1]

\* InvalidItems finding nothing to refuse.
InvalidItemsNone(its, lines) == <<>>

\* itemIds.filter(id => !foundItemIds.has(id))
InvalidItems(its, lines) ==
  LET itemIds == [k \in 1..Len(lines) |-> lines[k].itemId]
      missing(id) == FindItem(its, id) = {}
  IN  SelectSeq(itemIds, missing)

Balance(total, paidAmount) == total - paidAmount

\* PaymentStatus with > for >=: a bill paid exactly in full is not yet Paid.
PaymentStatusStrict(total, paidAmount) ==
  IF paidAmount > total THEN "Paid"
  ELSE IF paidAmount > 0 THEN "Partially Paid"
  ELSE "Pending"

PaymentStatus(total, paidAmount) ==
  IF paidAmount >= total THEN "Paid"
  ELSE IF paidAmount > 0 THEN "Partially Paid"
  ELSE "Pending"

\* Bill.js: the defaults of the fields a new Bill is not given.  The balance
\* field declares `default` twice and the second, 0, is the one in force.
DefaultPaidAmount == 0
DefaultBalance == 0
DefaultPaymentStatus == "Pending"

\* Bill.js: date defaults to Date.now.  Time is counted in bill writes, so the
\* dates of the stored bills are distinct and grow with the bill ids.
DateNow(bs) == Len(bs) + 1

\* InsertBill as an upsert keyed by customerId: a customer's earlier bill is
\* replaced by the new one.
InsertBillReplacing(bs, newBill) ==
  IF \E b \in 1..Len(bs) : bs[b].customerId = newBill.customerId
    THEN LET b == CHOOSE x \in 1..Len(bs) : bs[x].customerId = newBill.customerId
         IN  [bs EXCEPT ![b] = newBill]
    ELSE Append(bs, newBill)

\* await newBill.save()
InsertBill(bs, newBill) == Append(bs, newBill)

BillResponse(body, status, message, invalid, billId, bs) ==
  [resp |-> [Response("saveBill", status, message)
               EXCEPT !.body = body, !.invalidItems = invalid], invalidItems |-> invalid,
   billId |-> billId, bills |-> bs]

\* SaveBill checking the item ids only after the bill is written.
SaveBillWritingFirst(cs, its, bs, body) ==
  IF ~JoiBillValid(body)
    THEN BillResponse(body, 400, "validation", <<>>, 0, bs)
  ELSE IF FindCustomer(cs, body.customerId) = {}
    THEN BillResponse(body, 404, "Customer not found", <<>>, 0, bs)
  ELSE
    LET paidAmount == PaidAmountOf(body)
        newBill == [customerId |-> body.customerId,
                    items |-> body.items,
                    total |-> body.total,
                    paidAmount |-> paidAmount,
                    balance |-> Balance(body.total, paidAmount),
                    paymentStatus |-> PaymentStatus(body.total, paidAmount),
                    date |-> DateNow(bs)]
    IN  IF ~ModelBillValid(newBill)
          THEN BillResponse(body, 400, "ValidationError", <<>>, 0, bs)
        ELSE IF Len(InvalidItems(its, body.items)) > 0
          THEN BillResponse(body, 400, "Invalid item IDs",
                            InvalidItems(its, body.items), 0, InsertBill(bs, newBill))
        ELSE BillResponse(body, 201, "", <<>>, Len(bs) + 1, InsertBill(bs, newBill))

\* new Bill({ customerId, items, total, paidAmount, balance, paymentStatus })
NewBill(bs, body) ==
  LET paidAmount == PaidAmountOf(body)
  IN  [customerId |-> body.customerId,
       items |-> body.items,
       total |-> body.total,
       paidAmount |-> paidAmount,
       balance |-> Balance(body.total, paidAmount),
       paymentStatus |-> PaymentStatus(body.total, paidAmount),
       date |-> DateNow(bs)]

\* await newBill.save() and the response.
SaveNewBill(bs, body) ==
  IF ~ModelBillValid(NewBill(bs, body))
    THEN BillResponse(body, 400, "ValidationError", <<>>, 0, bs)
    ELSE BillResponse(body, 201, "", <<>>, Len(bs) + 1, InsertBill(bs, NewBill(bs, body)))

\* POST /bill/saveBill of Shop.js.
SaveBill(cs, its, bs, body) ==
  IF ~JoiBillValid(body)
    THEN BillResponse(body, 400, "validation", <<>>, 0, bs)
  ELSE IF FindCustomer(cs, body.customerId) = {}
    THEN BillResponse(body, 404, "Customer not found", <<>>, 0, bs)
  ELSE IF Len(InvalidItems(its, body.items)) > 0
    THEN BillResponse(body, 400, "Invalid item IDs", InvalidItems(its, body.items), 0, bs)
  ELSE SaveNewBill(bs, body)

\* POST /bill/saveBill of server.js.
SaveBillServer(bs, body) ==
  IF ~JoiBillValidServer(body)
    THEN BillResponse(body, 400, "validation", <<>>, 0, bs)
  ELSE
    LET newBill == [customerId |-> body.customerId,
                    items |-> body.items,
                    total |-> body.total,
                    paidAmount |-> DefaultPaidAmount,
                    balance |-> DefaultBalance,
                    paymentStatus |-> DefaultPaymentStatus,
                    date |-> DateNow(bs)]
    IN  IF ~ModelBillValid(newBill)
          THEN BillResponse(body, 400, "ValidationError", <<>>, 0, bs)
          ELSE BillResponse(body, 201, "", <<>>, Len(bs) + 1, InsertBill(bs, newBill))

\* NewPaidAmount adding the payment to what was paid before.
NewPaidAmountAccumulated(bill, paidAmount) == bill.paidAmount + paidAmount

\* bill.paidAmount = paidAmount
NewPaidAmount(bill, paidAmount) == paidAmount

\* WithPayment taking the payment for the bill's total as well.
WithPaymentAsTotal(bill, paidAmount) ==
  [bill EXCEPT !.total = paidAmount,
               !.paidAmount = NewPaidAmount(bill, paidAmount),
               !.balance = Balance(paidAmount, paidAmount),
               !.paymentStatus = PaymentStatus(paidAmount, paidAmount)]

\* The three assignments of PUT /bill/updatePayment/:billId.
WithPayment(bill, paidAmount) ==
  [bill EXCEPT !.paidAmount = NewPaidAmount(bill, paidAmount),
               !.balance = Balance(bill.total, paidAmount),
               !.paymentStatus = PaymentStatus(bill.total, paidAmount)]

PaymentResponse(status, message, bs) ==
  [resp |-> Response("updatePayment", status, message), bills |-> bs]

\* The paths that the assignments modified: an assignment of the value the
\* document was loaded with leaves its path unmodified.
ModifiedPaths(loaded, assigned) ==
  {f \in DOMAIN loaded : assigned[f] # loaded[f]}

\* What save() leaves in the store: the stored document with the modified
\* paths set to their assigned values.
SetPaths(stored, assigned, paths) ==
  [f \in DOMAIN stored |-> IF f \in paths THEN assigned[f] ELSE stored[f]]

\* await bill.save() for the document `loaded` by findById, and the response.
\* Every failure is caught by the handler itself and answered 500.
SavePayment(bs, billId, loaded, paidAmount) ==
  LET assigned == WithPayment(loaded, paidAmount)
  IN  IF ~ModelBillValid(assigned)
        THEN PaymentResponse(500, "Internal Server Error", bs)
        ELSE PaymentResponse(200, "",
               [bs EXCEPT ![billId] =
                  SetPaths(@, assigned, ModifiedPaths(loaded, assigned))])

\* PUT /bill/updatePayment/:billId.
UpdatePayment(bs, billId, body) ==
  IF body.paidAmount = Absent
    THEN PaymentResponse(400, "validation", bs)
  ELSE IF billId = 0
    THEN PaymentResponse(500, "Internal Server Error", bs)
  ELSE IF billId \notin 1..Len(bs)
    THEN PaymentResponse(404, "Bill not found", bs)
  ELSE SavePayment(bs, billId, bs[billId], body.paidAmount[1])

(***************************************************************************)
(* GET /bill/getBills/:customerId.                                         *)
(***************************************************************************)
\* Bill.find({ customerId }): the ids of the customer's bills.
BillsOf(bs, customerId) == {b \in 1..Len(bs) : bs[b].customerId = customerId}

\* .sort({ date: -1 }): the ids in `ids`, latest date first.
RECURSIVE SortByDateDesc(_, _)
SortByDateDesc(bs, ids) ==
  IF ids = {} THEN <<>>
  ELSE LET b == CHOOSE x \in ids : \A y \in ids : bs[x].date >= bs[y].date
       IN  <<b>> \o SortByDateDesc(bs, ids \ {b})

\* One line item as the response shows it, or the null that the filter drops.
EnrichLine(its, line) ==
  [itemId |-> LET i == TheItem(its, line.itemId)
              IN  [itemId |-> i.itemId, name |-> i.name, price |-> i.price],
   quantity |-> line.quantity]

\* EnrichItems keeping a line whose catalog item is gone, with an empty item.
EnrichItemsKeepingAll(its, lines) ==
  [k \in 1..Len(lines) |->
     IF FindItem(its, lines[k].itemId) # {}
       THEN EnrichLine(its, lines[k])
       ELSE [itemId |-> [itemId |-> lines[k].itemId, name |-> "", price |-> 0],
             quantity |-> lines[k].quantity]]

EnrichItems(its, lines) ==
  LET found(line) == FindItem(its, line.itemId) # {}
      kept == SelectSeq(lines, found)
  IN  [k \in 1..Len(kept) |-> EnrichLine(its, kept[k])]

EnrichBill(its, bs, b) ==
  [id |-> b,
   customerId |-> bs[b].customerId,
   items |-> EnrichItems(its, bs[b].items),
   total |-> bs[b].total,
   paidAmount |-> bs[b].paidAmount,
   balance |-> bs[b].balance,
   paymentStatus |-> bs[b].paymentStatus,
   date |-> bs[b].date]

\* UnknownCustomer answering as createBill does for a customer it cannot find.
UnknownCustomerRefused ==
  [resp |-> Response("getBills", 404, "Customer not found"),
   success |-> FALSE, bills |-> <<>>, total |-> 0]

\* The answer for a customer that is not stored.
UnknownCustomer ==
  [resp |-> Response("getBills", 200, "Customer not found"),
   success |-> TRUE, bills |-> <<>>, total |-> 0]

GetBills(cs, its, bs, customerId) ==
  IF ~JoiCustomerIdPattern(customerId)
    THEN [resp |-> Response("getBills", 400, "Invalid customer ID format"),
          success |-> FALSE, bills |-> <<>>, total |-> 0]
  ELSE IF FindCustomer(cs, customerId) = {}
    THEN UnknownCustomer
  ELSE
    LET sorted == SortByDateDesc(bs, BillsOf(bs, customerId))
        enrichedBills == [k \in 1..Len(sorted) |-> EnrichBill(its, bs, sorted[k])]
    IN  [resp |-> Response("getBills", 200, ""),
         success |-> TRUE, bills |-> enrichedBills, total |-> Len(enrichedBills)]

(***************************************************************************)
(* The actions: one per route.  The bill routes take the set their         *)
(* requests are drawn from, which differs between Spec and SpecPay.        *)
(***************************************************************************)
submitCustomers ==
  \E body \in CustomerBodies :
    LET r == SubmitCustomers(customers, body)
    IN  /\ customers' = r.customers
        /\ last' = r.resp
        /\ UNCHANGED <<items, bills, now, orders, reqs>>

deleteCustomer ==
  \E customerId \in CustomerIdInputs :
    LET r == DeleteCustomer(customers, customerId)
    IN  /\ customers' = r.customers
        /\ last' = r.resp
        /\ UNCHANGED <<items, bills, now, orders, reqs>>

toggleFavorite ==
  \E customerId \in CustomerIdInputs :
    LET r == ToggleFavorite(customers, customerId)
    IN  /\ customers' = r.customers
        /\ last' = r.resp
        /\ UNCHANGED <<items, bills, now, orders, reqs>>

updateCustomer ==
  \E customerId \in CustomerIdInputs, body \in UpdateCustomerBodies :
    LET r == UpdateCustomer(customers, customerId, body)
    IN  /\ customers' = r.customers
        /\ last' = r.resp
        /\ UNCHANGED <<items, bills, now, orders, reqs>>

submitItems ==
  \E body \in ItemBodies :
    LET r == SubmitItems(items, body, now)
    IN  /\ items' = r.items
        /\ last' = r.resp
        /\ UNCHANGED <<customers, bills, now, orders, reqs>>

updateItem ==
  \E body \in ItemBodies :
    LET r == UpdateItem(items, body, now)
    IN  /\ items' = r.items
        /\ last' = r.resp
        /\ UNCHANGED <<customers, bills, now, orders, reqs>>

deleteItem ==
  \E itemId \in ItemIdInputs :
    LET r == DeleteItem(items, itemId)
    IN  /\ items' = r.items
        /\ last' = r.resp
        /\ UNCHANGED <<customers, bills, now, orders, reqs>>

SaveBillRoute(bodies) ==
  /\ Len(bills) + 1 \in BillIds
  /\ \E body \in bodies :
       LET r == SaveBill(customers, items, bills, body)
       IN  /\ bills' = r.bills
           /\ last' = r.resp
           /\ UNCHANGED <<customers, items, now, orders, reqs>>

SaveBillServerRoute(bodies) ==
  /\ Len(bills) + 1 \in BillIds
  /\ \E body \in bodies :
       LET r == SaveBillServer(bills, body)
       IN  /\ bills' = r.bills
           /\ last' = r.resp
           /\ UNCHANGED <<customers, items, now, orders, reqs>>

UpdatePaymentRoute(bodies) ==
  \E billId \in BillIdInputs, body \in bodies :
    LET r == UpdatePayment(bills, billId, body)
    IN  /\ bills' = r.bills
        /\ last' = r.resp
        /\ UNCHANGED <<customers, items, now, orders, reqs>>

saveBill == SaveBillRoute(BillBodies)

saveBillServer == SaveBillServerRoute(BillBodies)

updatePayment == UpdatePaymentRoute(PaymentBodies)

getBills ==
  \E customerId \in CustomerIdInputs :
    LET r == GetBills(customers, items, bills, customerId)
    IN  /\ last' = r.resp
        /\ UNCHANGED <<customers, items, bills, now, orders, reqs>>

Next ==
  \/ submitCustomers
  \/ deleteCustomer
  \/ toggleFavorite
  \/ updateCustomer
  \/ submitItems
  \/ updateItem
  \/ deleteItem
  \/ saveBill
  \/ saveBillServer
  \/ getBills
  \/ updatePayment

Spec == Init /\ [][Next]_vars

(***************************************************************************)
(* SpecPay: the bill routes of Shop.js that write (createBill and           *)
(* recordPayment), over every amount, with the customers of Init and both  *)
(* catalog items in the store.                                             *)
(***************************************************************************)
InitPay ==
  /\ customers = { [customerId |-> CustA, name |-> "Anu", phonenumber |-> PhoneA,
                    favorite |-> FALSE],
                   [customerId |-> CustB, name |-> "Banu", phonenumber |-> PhoneB,
                    favorite |-> FALSE] }
  /\ items = { NewItem([itemId |-> ItemA, name |-> "Shirt", price |-> 10], 0),
               NewItem([itemId |-> ItemB, name |-> "Shirt", price |-> 20], 0) }
  /\ bills = <<>>
  /\ last = Response("none", 0, "")
  /\ now = 0
  /\ orders = <<>>
  /\ reqs = <<>>

createBill == SaveBillRoute(AmountBillBodies)

recordPayment == UpdatePaymentRoute(AmountPaymentBodies)

NextPay ==
  \/ createBill
  \/ recordPayment

SpecPay == InitPay /\ [][NextPay]_vars

(***************************************************************************)
(* SpecAari: the work orders.  The repository holds their schema and its   *)
(* save hook and no route that writes one, so the writers are the two ways *)
(* a caller meets the hook: saving a new order, and loading an order,      *)
(* assigning its status and saving it.  A date is a clock reading in a     *)
(* sequence of length one; the null date is the empty sequence.            *)
(***************************************************************************)
NoDate == <<>>

OrderIds == {1, 2}

\* status: enum ["pending", "completed"], and a request may leave it out.
StatusInputs == {Absent, Present("pending"), Present("completed")}

\* PreSave stamping whenever the status is saved as completed.
PreSaveRestamping(doc, statusModified, t) ==
  IF statusModified
    THEN [doc EXCEPT !.completeddate = IF doc.status = "completed" THEN <<t>> ELSE @,
                     !.updatedAt = <<t>>]
    ELSE doc

\* AariSchema.pre("save"), for the document as assigned, statusModified being
\* this.isModified("status") and t the reading of new Date().
PreSave(doc, statusModified, t) ==
  IF statusModified
    THEN [doc EXCEPT !.completeddate =
                       IF doc.status = "completed" /\ doc.completeddate = NoDate
                         THEN <<t>> ELSE @,
                     !.updatedAt = <<t>>]
    ELSE doc

\* new Aari({..., status}): status defaults to "pending", completeddate to
\* null, and the timestamps option sets updatedAt at creation.
NewOrder(status, t) ==
  [status |-> IF status = Absent THEN "pending" ELSE status[1],
   completeddate |-> NoDate,
   updatedAt |-> <<t>>]

\* A new order is saved.  A status that the caller gave counts as modified, a
\* defaulted one does not.
createOrder ==
  /\ Len(orders) + 1 \in OrderIds
  /\ \E status \in StatusInputs :
       orders' = Append(orders, PreSave(NewOrder(status, now), status # Absent, now))
  /\ last' = Response("createOrder", 0, "")
  /\ UNCHANGED <<customers, items, bills, now, reqs>>

\* A stored order is loaded, its status assigned and the order saved.  An
\* assignment of the value the order has modifies nothing.
saveOrder ==
  /\ \E o \in 1..Len(orders), status \in {"pending", "completed"} :
       orders' = [orders EXCEPT ![o] = PreSave([@ EXCEPT !.status = status],
                                               status # orders[o].status, now)]
  /\ last' = Response("saveOrder", 0, "")
  /\ UNCHANGED <<customers, items, bills, now, reqs>>

\* Time passes.
tick ==
  /\ now < MaxTime
  /\ now' = now + 1
  /\ last' = Response("tick", 0, "")
  /\ UNCHANGED <<customers, items, bills, orders, reqs>>

NextAari ==
  \/ createOrder
  \/ saveOrder
  \/ tick

SpecAari == Init /\ [][NextAari]_vars

(***************************************************************************)
(* SpecCatalog: the catalog routes while time passes.                      *)
(***************************************************************************)
NextCatalog ==
  \/ submitItems
  \/ updateItem
  \/ deleteItem
  \/ tick

SpecCatalog == Init /\ [][NextCatalog]_vars

(***************************************************************************)
(* Concurrent requests.  A handler runs to its next await in one piece and *)
(* each awaited store operation is atomic at the store, so a request in    *)
(* flight is a body and the store operation it is about to make, and one   *)
(* step is that operation together with the handler code up to the next    *)
(* await or the response.  reqs maps each of Procs to its request.         *)
(***************************************************************************)
Procs == {1, 2}

Idle == [op |-> "idle", pc |-> "idle"]

Request(op, pc, body) == [op |-> op, pc |-> pc, body |-> body]

AllIdle == [p \in Procs |-> Idle]

\* The request of p is answered.
Respond(p, resp) ==
  /\ last' = resp
  /\ reqs' = [reqs EXCEPT ![p] = Idle]

\* The request of p goes on to its next store operation.
Await(p, op, pc, body) ==
  /\ reqs' = [reqs EXCEPT ![p] = Request(op, pc, body)]
  /\ UNCHANGED last

At(p, op, pc) == reqs[p].op = op /\ reqs[p].pc = pc

(***************************************************************************)
(* SpecRace: submitCustomers, updateCustomer and submitItems interleaved.   *)
(***************************************************************************)
\* submitCustomers to the answer of Customer.findOne({ customerId }).
submitCustomersFindId ==
  \E p \in Procs, body \in CustomerBodies :
    /\ reqs[p] = Idle
    /\ IF ~JoiCustomerValid(body)
         THEN Respond(p, Response("submitCustomers", 400, "validation"))
       ELSE IF ExistingCustomer(customers, body) # {}
         THEN Respond(p, Response("submitCustomers", 409, "Customer ID already exists"))
       ELSE Await(p, "submitCustomers", "findPhone", body)
    /\ UNCHANGED <<customers, items, bills, now, orders>>

\* The answer of Customer.findOne({ phonenumber }).
submitCustomersFindPhone ==
  \E p \in Procs :
    /\ At(p, "submitCustomers", "findPhone")
    /\ IF {c \in customers : c.phonenumber = reqs[p].body.phonenumber} # {}
         THEN Respond(p, Response("submitCustomers", 409, "Phone number already exists"))
         ELSE Await(p, "submitCustomers", "save", reqs[p].body)
    /\ UNCHANGED <<customers, items, bills, now, orders>>

\* newCustomer.save() and the response.
submitCustomersSave ==
  \E p \in Procs :
    /\ At(p, "submitCustomers", "save")
    /\ LET r == SaveCustomer(customers, reqs[p].body)
       IN  /\ customers' = r.customers
           /\ Respond(p, r.resp)
    /\ UNCHANGED <<items, bills, now, orders>>

\* updateCustomer to the answer of the findOne for another customer's phone.
updateCustomerFindPhone ==
  \E p \in Procs, body \in CustomerBodies :
    /\ reqs[p] = Idle
    /\ IF ~JoiUpdateCustomerValid(body)
         THEN Respond(p, Response("updateCustomer", 400, "validation"))
       ELSE IF ExistingPhone(customers, body.customerId, body) # {}
         THEN Respond(p, Response("updateCustomer", 409, "Phone number already exists"))
       ELSE Await(p, "updateCustomer", "findOneAndUpdate", body)
    /\ UNCHANGED <<customers, items, bills, now, orders>>

\* Customer.findOneAndUpdate and the response.
updateCustomerFindOneAndUpdate ==
  \E p \in Procs :
    /\ At(p, "updateCustomer", "findOneAndUpdate")
    /\ LET r == FindOneAndUpdateCustomer(customers, reqs[p].body.customerId, reqs[p].body)
       IN  /\ customers' = r.customers
           /\ Respond(p, r.resp)
    /\ UNCHANGED <<items, bills, now, orders>>

\* submitItems to the answer of Billing.findOne({ itemId }).
submitItemsFindOne ==
  \E p \in Procs, body \in ItemBodies :
    /\ reqs[p] = Idle
    /\ IF ~JoiItemValid(body)
         THEN Respond(p, Response("submitItems", 400, "validation"))
       ELSE IF FindItem(items, body.itemId) # {}
         THEN Respond(p, Response("submitItems", 409, "Item ID already exists"))
       ELSE Await(p, "submitItems", "save", body)
    /\ UNCHANGED <<customers, items, bills, now, orders>>

\* newItem.save() and the response.
submitItemsSave ==
  \E p \in Procs :
    /\ At(p, "submitItems", "save")
    /\ LET r == SaveItem(items, reqs[p].body, now)
       IN  /\ items' = r.items
           /\ Respond(p, r.resp)
    /\ UNCHANGED <<customers, bills, now, orders>>

\* One customer is stored, so that a submitCustomers request for the other
\* customerId passes the first lookup.
InitRace ==
  /\ customers = { [customerId |-> CustA, name |-> "Anu", phonenumber |-> PhoneA,
                    favorite |-> FALSE] }
  /\ items = {}
  /\ bills = <<>>
  /\ last = Response("none", 0, "")
  /\ now = 0
  /\ orders = <<>>
  /\ reqs = AllIdle

NextRace ==
  \/ submitCustomersFindId
  \/ submitCustomersFindPhone
  \/ submitCustomersSave
  \/ updateCustomerFindPhone
  \/ updateCustomerFindOneAndUpdate
  \/ submitItemsFindOne
  \/ submitItemsSave

SpecRace == InitRace /\ [][NextRace]_vars

(***************************************************************************)
(* SpecBillRace: saveBill of Shop.js interleaved with the deletion of      *)
(* customers and of catalog items.                                         *)
(***************************************************************************)
\* saveBill to the answer of Customer.findOne({ customerId }).
saveBillFindCustomer ==
  \E p \in Procs, body \in BillBodies :
    /\ reqs[p] = Idle
    /\ Len(bills) + Cardinality({q \in Procs : reqs[q].op = "saveBill"}) + 1 \in BillIds
    /\ IF ~JoiBillValid(body)
         THEN Respond(p, BillResponse(body, 400, "validation", <<>>, 0, bills).resp)
       ELSE IF FindCustomer(customers, body.customerId) = {}
         THEN Respond(p, BillResponse(body, 404, "Customer not found", <<>>, 0, bills).resp)
       ELSE Await(p, "saveBill", "findItems", body)
    /\ UNCHANGED <<customers, items, bills, now, orders>>

\* The answer of Billing.find({ itemId: { $in: itemIds } }).
saveBillFindItems ==
  \E p \in Procs :
    /\ At(p, "saveBill", "findItems")
    /\ IF Len(InvalidItems(items, reqs[p].body.items)) > 0
         THEN Respond(p, BillResponse(reqs[p].body, 400, "Invalid item IDs",
                                      InvalidItems(items, reqs[p].body.items), 0, bills).resp)
         ELSE Await(p, "saveBill", "save", reqs[p].body)
    /\ UNCHANGED <<customers, items, bills, now, orders>>

\* newBill.save() and the response.
saveBillSave ==
  \E p \in Procs :
    /\ At(p, "saveBill", "save")
    /\ LET r == SaveNewBill(bills, reqs[p].body)
       IN  /\ bills' = r.bills
           /\ Respond(p, r.resp)
    /\ UNCHANGED <<customers, items, now, orders>>

InitBillRace ==
  /\ customers = { [customerId |-> CustA, name |-> "Anu", phonenumber |-> PhoneA,
                    favorite |-> FALSE],
                   [customerId |-> CustB, name |-> "Banu", phonenumber |-> PhoneB,
                    favorite |-> FALSE] }
  /\ items = { NewItem([itemId |-> ItemA, name |-> "Shirt", price |-> 10], 0),
               NewItem([itemId |-> ItemB, name |-> "Shirt", price |-> 20], 0) }
  /\ bills = <<>>
  /\ last = Response("none", 0, "")
  /\ now = 0
  /\ orders = <<>>
  /\ reqs = AllIdle

NextBillRace ==
  \/ saveBillFindCustomer
  \/ saveBillFindItems
  \/ saveBillSave
  \/ deleteCustomer
  \/ deleteItem

SpecBillRace == InitBillRace /\ [][NextBillRace]_vars

(***************************************************************************)
(* SpecPayRace: updatePayment requests interleaved, on the one bill that   *)
(* createBill has stored.                                                  *)
(***************************************************************************)
createFirstBill ==
  /\ Len(bills) = 0
  /\ SaveBillRoute(AmountBillBodies)

\* updatePayment to the answer of Bill.findById(billId), and the three
\* assignments to the document it returns.
updatePaymentFindById ==
  \E p \in Procs, billId \in BillIdInputs, body \in AmountPaymentBodies :
    /\ reqs[p] = Idle
    /\ IF body.paidAmount = Absent
         THEN Respond(p, Response("updatePayment", 400, "validation"))
       ELSE IF billId = 0
         THEN Respond(p, Response("updatePayment", 500, "Internal Server Error"))
       ELSE IF billId \notin 1..Len(bills)
         THEN Respond(p, Response("updatePayment", 404, "Bill not found"))
       ELSE Await(p, "updatePayment", "save",
                  [billId |-> billId, paidAmount |-> body.paidAmount[1],
                   bill |-> bills[billId]])
    /\ UNCHANGED <<customers, items, bills, now, orders>>

\* bill.save() and the response.
updatePaymentSave ==
  \E p \in Procs :
    /\ At(p, "updatePayment", "save")
    /\ LET r == SavePayment(bills, reqs[p].body.billId, reqs[p].body.bill,
                            reqs[p].body.paidAmount)
       IN  /\ bills' = r.bills
           /\ Respond(p, r.resp)
    /\ UNCHANGED <<customers, items, now, orders>>

NextPayRace ==
  \/ createFirstBill
  \/ updatePaymentFindById
  \/ updatePaymentSave

SpecPayRace == InitBillRace /\ [][NextPayRace]_vars

(***************************************************************************)
(* The claims.                                                             *)
(***************************************************************************)
Store == <<customers, items, bills>>

Succeeded(resp) == resp.status \in {200, 201}

\* C1: every stored bill has balance = total - paidAmount.
C1_BalanceIsTotalMinusPaid ==
  \A b \in 1..Len(bills) : bills[b].balance = bills[b].total - bills[b].paidAmount

\* The payment status rule as C2 states it.
StatusAsClaimed(bill) ==
  /\ bill.paymentStatus = "Paid" <=> bill.paidAmount >= bill.total
  /\ bill.paymentStatus = "Pending" <=> bill.paidAmount = 0
  /\ bill.paymentStatus = "Partially Paid" <=>
       ~(bill.paidAmount >= bill.total) /\ ~(bill.paidAmount = 0)

\* The rule with Paid taking precedence over Pending.
StatusAmended(bill) ==
  /\ bill.paymentStatus = "Paid" <=> bill.paidAmount >= bill.total
  /\ bill.paymentStatus = "Pending" <=> bill.paidAmount = 0 /\ bill.total > 0
  /\ bill.paymentStatus = "Partially Paid" <=>
       bill.paidAmount > 0 /\ bill.paidAmount < bill.total

\* C2 as stated: the paymentStatus stored by createBill and by recordPayment is
\* Paid iff paidAmount >= total, Pending iff paidAmount = 0, else Partially Paid.
C2_StatusAsClaimed == \A b \in 1..Len(bills) : StatusAsClaimed(bills[b])

\* C2 amended: the paymentStatus stored by createBill (Shop.js) and by
\* recordPayment is Paid iff paidAmount >= total, Pending iff paidAmount = 0 and
\* total > 0, Partially Paid iff 0 < paidAmount < total.
C2_StatusAmended == \A b \in 1..Len(bills) : StatusAmended(bills[b])

\* createBill has stored a bill with total = 0 and paidAmount = 0, as Paid, and
\* recordPayment has left another bill partially paid.
C2_Witness ==
  /\ last.op = "updatePayment" /\ last.status = 200
  /\ \E b \in 1..Len(bills) :
       bills[b].total = 0 /\ bills[b].paidAmount = 0 /\ bills[b].paymentStatus = "Paid"
  /\ \E b \in 1..Len(bills) : bills[b].paymentStatus = "Partially Paid"

\* C3: recordPayment applied twice with the same billId and paidAmount leaves
\* the bill collection, and answers, as applying it once does.
C3_RecordPaymentIdempotent ==
  \A billId \in BillIdInputs, body \in AmountPaymentBodies :
    LET once == UpdatePayment(bills, billId, body)
        twice == UpdatePayment(once.bills, billId, body)
    IN  twice.bills = once.bills /\ twice.resp = once.resp

\* recordPayment has stored a payment that overpays a bill.
C3_Witness ==
  /\ last.op = "updatePayment" /\ last.status = 200
  /\ \E b \in 1..Len(bills) : bills[b].paidAmount > bills[b].total

\* The item ids of a bill request that no catalog item has.
MissingItemIds(body) ==
  {body.items[k].itemId : k \in 1..Len(body.items)} \ {i.itemId : i \in items}

\* C4: createBill, well-formed, for a stored customer and with an itemId that
\* the catalog lacks, answers 400 naming exactly the lacking itemIds and
\* persists no bill.
C4_MissingItemsRefused ==
  [][ ( /\ last'.op = "saveBill"
        /\ JoiBillValid(last'.body)
        /\ FindCustomer(customers, last'.body.customerId) # {}
        /\ MissingItemIds(last'.body) # {} )
      => ( /\ last'.status = 400
           /\ last'.message = "Invalid item IDs"
           /\ Range(last'.invalidItems) = MissingItemIds(last'.body)
           /\ bills' = bills ) ]_vars

\* C5: createBill, well-formed, for a customerId that no stored customer has
\* answers 404 and persists no bill.
C5_UnknownCustomerRefused ==
  [][ ( /\ last'.op = "saveBill"
        /\ JoiBillValid(last'.body)
        /\ FindCustomer(customers, last'.body.customerId) = {} )
      => ( /\ last'.status = 404
           /\ bills' = bills ) ]_vars

\* C6: listBillsForCustomer for a well-formed customerId that no stored
\* customer has succeeds with no bill and total 0.
C6_UnknownCustomerListsNothing ==
  \A customerId \in CustomerIdInputs :
    JoiCustomerIdPattern(customerId) /\ FindCustomer(customers, customerId) = {}
    => LET r == GetBills(customers, items, bills, customerId)
       IN  /\ r.resp.status = 200
           /\ r.success
           /\ r.bills = <<>>
           /\ r.total = 0

\* listBillsForCustomer has answered for a customer that is not stored while
\* one of that customer's bills is.
C6_Witness ==
  /\ last.op = "getBills" /\ last.status = 200 /\ last.message = "Customer not found"
  /\ \E b \in 1..Len(bills) :
       /\ FindCustomer(customers, bills[b].customerId) = {}
       /\ \A c \in CustomerIdInputs :
            JoiCustomerIdPattern(c) /\ FindCustomer(customers, c) = {}
            => c = bills[b].customerId

\* The lines shown for a bill are the stored lines whose item the catalog has,
\* in stored order, each with its quantity and the catalog's name and price.
LinesAsClaimed(shown, stored) ==
  LET kept == {k \in 1..Len(stored) : \E i \in items : i.itemId = stored[k].itemId}
      Nth(j) == CHOOSE k \in kept : Cardinality({x \in kept : x <= k}) = j
  IN  /\ Len(shown) = Cardinality(kept)
      /\ \A j \in 1..Len(shown) :
           /\ shown[j].quantity = stored[Nth(j)].quantity
           /\ shown[j].itemId.itemId = stored[Nth(j)].itemId
           /\ \E i \in items :
                /\ i.itemId = stored[Nth(j)].itemId
                /\ shown[j].itemId.name = i.name
                /\ shown[j].itemId.price = i.price

\* C7: for a stored customer listBillsForCustomer returns each stored bill of
\* that customer once and no other, every one with the lines LinesAsClaimed.
C7_ListShowsCatalogLines ==
  \A customerId \in CustomerIdInputs :
    FindCustomer(customers, customerId) # {}
    => LET r == GetBills(customers, items, bills, customerId)
           own == {b \in 1..Len(bills) : bills[b].customerId = customerId}
       IN  /\ r.resp.status = 200
           /\ Len(r.bills) = Cardinality(own)
           /\ {r.bills[k].id : k \in 1..Len(r.bills)} = own
           /\ \A k \in 1..Len(r.bills) :
                LinesAsClaimed(r.bills[k].items, bills[r.bills[k].id].items)

\* listBillsForCustomer has answered for the one stored customer, who has a
\* bill with a line whose item was deleted and a line whose item is there, and
\* the other customer has a bill too.
C7_Witness ==
  /\ last.op = "getBills" /\ last.status = 200 /\ last.message = ""
  /\ \E c \in customers :
       /\ customers = {c}
       /\ \E b \in 1..Len(bills) :
            /\ bills[b].customerId = c.customerId
            /\ MissingItemIds(bills[b]) # {}
            /\ \E k \in 1..Len(bills[b].items) : FindItem(items, bills[b].items[k].itemId) # {}
       /\ \E b \in 1..Len(bills) : bills[b].customerId # c.customerId

\* C8: submitCustomers, well-formed, with the customerId of a stored customer
\* answers 409 and leaves the customer collection as it is.
C8_DuplicateCustomerIdConflicts ==
  \A body \in CustomerBodies :
    JoiCustomerValid(body) /\ (\E c \in customers : c.customerId = body.customerId)
    => LET r == SubmitCustomers(customers, body)
       IN  /\ r.resp.status = 409
           /\ r.customers = customers
           /\ Cardinality(r.customers) = Cardinality(customers)

\* submitCustomers has refused a customerId that is stored.
C8_Witness ==
  /\ last.op = "submitCustomers" /\ last.status = 409
  /\ last.message = "Customer ID already exists"
  /\ customers # {}

\* C9: a request that is not answered 200 or 201 (so every validation,
\* conflict, not-found and invalid-reference failure) leaves the store as it was.
C9_FailureLeavesStore ==
  [][ ~Succeeded(last') => Store' = Store ]_vars

\* createBill has been refused for its item ids while the store holds a
\* customer, a catalog item and a bill.
C9_Witness ==
  /\ last.op = "saveBill" /\ last.status = 400 /\ last.message = "Invalid item IDs"
  /\ customers # {} /\ items # {} /\ bills # <<>>

\* C10: a successful createBill appends one bill and leaves the customers, the
\* catalog items and the bills stored before as they were.
C10_CreateBillAddsOneBill ==
  [][ last'.op = "saveBill" /\ Succeeded(last')
      => ( /\ customers' = customers
           /\ items' = items
           /\ Len(bills') = Len(bills) + 1
           /\ \A b \in 1..Len(bills) : bills'[b] = bills[b] ) ]_vars

\* createBill has succeeded for a customer who had a bill already.
C10_Witness ==
  /\ last.op = "saveBill" /\ last.status = 201
  /\ Len(bills) = 2
  /\ bills[1].customerId = bills[2].customerId
  /\ FindCustomer(customers, bills[2].customerId) # {}
  /\ MissingItemIds(bills[2]) = {}

\* C11: submitCustomers with a record that passes the request-level rules and
\* whose customerId and phone number are not stored answers 201 and persists
\* the customer.
C11_AcceptedCustomerIsStored ==
  [][ ( /\ last'.op = "submitCustomers"
        /\ last'.message \notin {"validation", "Customer ID already exists",
                                 "Phone number already exists"} )
      => ( /\ last'.status = 201
           /\ customers \subseteq customers'
           /\ Cardinality(customers') = Cardinality(customers) + 1 ) ]_vars

\* C12: toggleFavorite on a stored customer flips that customer's stored
\* favorite flag and reports the new value (so that two in succession restore
\* it); on a customer that is not stored it answers 404 and changes nothing.
C12_ToggleFavoriteFlips ==
  [][ last'.op = "toggleFavorite"
      => \/ /\ last'.status = 404
            /\ Store' = Store
         \/ /\ last'.status = 200
            /\ \E c \in customers :
                 /\ customers' = (customers \ {c})
                                   \cup {[c EXCEPT !.favorite = ~c.favorite]}
                 /\ last'.message = IF ~c.favorite
                                      THEN "Customer added to favorites"
                                      ELSE "Customer removed from favorites" ]_vars

\* C13: over any sequence of saves of a work order, completeddate is stamped
\* with the current time by the save that changes status to completed while
\* completeddate is unset (the creation of an order as completed included), by
\* no other save, and once set it never changes.
C13_CompletedDateStampedOnce ==
  [][ \A o \in 1..Len(orders') :
        IF o > Len(orders)
          THEN orders'[o].completeddate =
                 IF orders'[o].status = "completed" THEN <<now>> ELSE NoDate
          ELSE /\ orders[o].completeddate # NoDate
                    => orders'[o].completeddate = orders[o].completeddate
               /\ orders[o].completeddate = NoDate
                    => orders'[o].completeddate =
                         IF orders[o].status # "completed"
                            /\ orders'[o].status = "completed"
                           THEN <<now>> ELSE NoDate ]_vars

\* An order completed earlier was set back to pending and completed again at a
\* later time: its status changed after the time its completeddate holds.
C13_Witness ==
  /\ last.op = "saveOrder"
  /\ \E o \in 1..Len(orders) :
       /\ orders[o].status = "completed"
       /\ orders[o].completeddate # NoDate
       /\ orders[o].completeddate[1] < orders[o].updatedAt[1]
       /\ orders[o].updatedAt[1] = now

\* C14: every successful write of a catalog item, by submitItems and by
\* updateItem, leaves the written item with updatedAt at the time of the
\* write (and the other items as they were).
C14_WriteSetsUpdatedAt ==
  [][ last'.op \in {"submitItems", "updateItem"} /\ Succeeded(last')
      => \E i \in items' :
           /\ i.updatedAt = now
           /\ (items' \ {i}) \subseteq items ]_vars

\* No two stored customers share a customerId or a phone number, no two
\* catalog items an itemId.
UniqueKeys ==
  /\ \A c, d \in customers :
       (c.customerId = d.customerId \/ c.phonenumber = d.phonenumber) => c = d
  /\ \A i, j \in items : i.itemId = j.itemId => i = j

\* The request of p, passed by its existence checks, is refused by a unique
\* constraint in this step.
LosesRace(p) ==
  \/ /\ At(p, "submitCustomers", "save")
     /\ ModelCustomerValid(reqs[p].body)
     /\ ~CustomerIndexesAllow(customers, reqs[p].body)
  \/ /\ At(p, "updateCustomer", "findOneAndUpdate")
     /\ ModelCustomerUpdateValid(reqs[p].body)
     /\ FindCustomer(customers, reqs[p].body.customerId) # {}
     /\ ExistingPhone(customers, reqs[p].body.customerId, reqs[p].body) # {}
  \/ /\ At(p, "submitItems", "save")
     /\ ModelItemValid(reqs[p].body)
     /\ ~ItemIndexAllows(items, reqs[p].body)

\* C15: under any interleaving of submitCustomers, updateCustomer and
\* submitItems requests the keys stay unique, and a request that the unique
\* constraint refuses after its existence check passed is answered 409.
C15_RaceLoserConflicts ==
  /\ []UniqueKeys
  /\ [][ \A p \in Procs :
           LosesRace(p) /\ reqs'[p] = Idle => last'.status = 409 ]_vars

\* The customer and every itemId of `bill` are stored.
ReferencesExist(bill) ==
  /\ FindCustomer(customers, bill.customerId) # {}
  /\ \A k \in 1..Len(bill.items) : FindItem(items, bill.items[k].itemId) # {}

\* C16 as stated: every bill, at the moment it is written, references a stored
\* customer and only itemIds of the catalog, under any interleaving of
\* createBill with deleteCustomer and catalog-item delete requests.
C16_WrittenBillReferencesExist ==
  [][ Len(bills') > Len(bills) => ReferencesExist(bills'[Len(bills')]) ]_vars

\* C16 amended: every bill written is the bill of a createBill request whose
\* customer was stored when the request looked the customer up and whose
\* itemIds were all in the catalog when it looked them up, the lookups being
\* made in that order before the write.
C16_WrittenBillWasChecked ==
  [][ /\ \A p \in Procs :
           /\ reqs[p] = Idle /\ reqs'[p].op = "saveBill"
                => FindCustomer(customers, reqs'[p].body.customerId) # {}
           /\ reqs'[p] # reqs[p] /\ reqs'[p].op = "saveBill" /\ reqs'[p].pc = "save"
                => /\ At(p, "saveBill", "findItems")
                   /\ reqs'[p].body = reqs[p].body
                   /\ \A k \in 1..Len(reqs[p].body.items) :
                        FindItem(items, reqs[p].body.items[k].itemId) # {}
      /\ Len(bills') > Len(bills)
           => \E p \in Procs :
                /\ At(p, "saveBill", "save")
                /\ reqs'[p] = Idle
                /\ bills' = Append(bills, bills'[Len(bills')])
                /\ bills'[Len(bills')].customerId = reqs[p].body.customerId
                /\ bills'[Len(bills')].items = reqs[p].body.items ]_vars

\* A bill has just been written whose customer and one of whose items were
\* deleted between the lookups and the write.
C16_Witness ==
  /\ last.op = "saveBill" /\ last.status = 201
  /\ bills # <<>>
  /\ FindCustomer(customers, bills[Len(bills)].customerId) = {}
  /\ \E k \in 1..Len(bills[Len(bills)].items) :
       FindItem(items, bills[Len(bills)].items[k].itemId) = {}

\* C17: under any interleaving of recordPayment requests on a bill, the stored
\* paidAmount, balance and paymentStatus are those that one request stores
\* when run alone: balance = total - paidAmount, and paymentStatus follows
\* from total and paidAmount by the rule of creation.
C17_StoredTripleIsOneRequests ==
  \A b \in 1..Len(bills) :
    /\ bills[b].balance = bills[b].total - bills[b].paidAmount
    /\ bills[b].paymentStatus = PaymentStatus(bills[b].total, bills[b].paidAmount)

\* C18: every stored bill has total >= 0, paidAmount >= 0, at least one line
\* item and every quantity >= 1; a recordPayment with a negative paidAmount
\* stores nothing.
C18_StoredBillsWithinRanges ==
  \A b \in 1..Len(bills) :
    /\ bills[b].total >= 0
    /\ bills[b].paidAmount >= 0
    /\ Len(bills[b].items) >= 1
    /\ \A k \in 1..Len(bills[b].items) : bills[b].items[k].quantity >= 1

\* recordPayment has been refused by the store's validation with two bills
\* stored, one of them paid in full by an earlier recordPayment.
C18_Witness ==
  /\ last.op = "updatePayment" /\ last.status = 500
  /\ Len(bills) = 2
  /\ \E b \in 1..Len(bills) : bills[b].paidAmount = bills[b].total

\* C19: a successful recordPayment leaves the customers, the catalog, every
\* other bill and the addressed bill's customerId, items, total and date as
\* they were; and no step of any operation removes a bill.
C19_RecordPaymentFrame ==
  [][ /\ Len(bills') >= Len(bills)
      /\ last'.op = "updatePayment" /\ Succeeded(last')
           => /\ customers' = customers
              /\ items' = items
              /\ Len(bills') = Len(bills)
              /\ \E b \in 1..Len(bills) :
                   /\ \A c \in 1..Len(bills) : c # b => bills'[c] = bills[c]
                   /\ bills'[b].customerId = bills[b].customerId
                   /\ bills'[b].items = bills[b].items
                   /\ bills'[b].total = bills[b].total
                   /\ bills'[b].date = bills[b].date ]_vars

\* recordPayment has succeeded on one of two stored bills and changed what is
\* paid on it.
C19_Witness ==
  /\ last.op = "updatePayment" /\ last.status = 200
  /\ Len(bills) = 2
  /\ \E b \in 1..Len(bills) : bills[b].paidAmount = MaxAmount
  /\ \E b \in 1..Len(bills) : bills[b].paidAmount # MaxAmount

====
